---------------------------- MODULE Spec2Model ----------------------------
(***************************************************************************)
(* Model of the dashboard server's real-time engine: the WebSocketHandler  *)
(* (polling hub, active-call registry, alert evaluation), the              *)
(* FreePBXService (upstream fetches, normalisation, synthetic fallback,    *)
(* statistics) and the connector event route.                              *)
(*                                                                         *)
(* Time is counted in whole seconds.  One action is one turn of the Node   *)
(* event loop: the synchronous code of a callback together with the        *)
(* promise continuations (microtasks) it makes runnable.                   *)
(***************************************************************************)
EXTENDS Integers, Sequences, FiniteSets, TLC

\* ------------------------------------------------------------------ bounds
MaxTime == 60
MaxTicks == 2
MaxInFlight == 2
MaxEvents == 3
MaxCalls == 2
MaxRefresh == 2
MaxChanges == 1
MaxTimers == 2
MaxAgents == 10
MaxConnections == 1
MaxLatency == 2
WindowTicks == 6
WindowTime == 80

\* ------------------------------------------------------- program constants
\* DATA_REFRESH_INTERVAL is set to 15000; the clock moves in steps of that size
ClockStep == 15
UpdateInterval == 15
AlertWindow == 30
RequestTimeout == 10
LongWaitLimit == 300
HighVolumeLimit == 10
DefaultConnectorUrl == "http://localhost:8080"

\* --------------------------------------------------------------- identifiers
\* Every identifier (call id, uniqueid, extension, agent id, queue id) is a
\* triple <<kind, n, m>>, so that the code's === between any two of them is
\* defined.  Undefined stands for JavaScript's undefined.
Undefined == <<"undefined", 0, 0>>
Uid(n) == <<"uid", n, 0>>
Ext(n) == <<"ext", n, 0>>
QueueId(n) == <<"queue", n, 0>>
AgentId(n) == <<"agent", n, 0>>
\* `call_${Date.now()}`
GeneratedCallId(t) == <<"call", t, -1>>
\* `call_${Date.now()}_${i}`
MockCallId(t, i) == <<"call", t, i>>

Range(s) == {s[i] : i \in 1..Len(s)}

RECURSIVE SeqSum(_)
SeqSum(s) == IF s = <<>> THEN 0 ELSE Head(s) + SeqSum(Tail(s))

RECURSIVE SeqMax(_)
SeqMax(s) == IF s = <<>> THEN 0
             ELSE LET m == SeqMax(Tail(s)) IN IF Head(s) > m THEN Head(s) ELSE m

\* ------------------------------------------------------ status normalisation
\* String.prototype.toLowerCase on the status words the provider is given
\* here; a word without capitals is its own lower case
CaseTable ==
  { <<"NOT_INUSE", "not_inuse">>, <<"Not_Inuse", "not_inuse">>,
    <<"AVAILABLE", "available">>, <<"Available", "available">>,
    <<"IDLE", "idle">>, <<"Idle", "idle">>,
    <<"FREE", "free">>, <<"Free", "free">>,
    <<"INUSE", "inuse">>, <<"InUse", "inuse">>,
    <<"BUSY", "busy">>, <<"Busy", "busy">>,
    <<"RINGING", "ringing">>, <<"Ringing", "ringing">>,
    <<"RINGINUSE", "ringinuse">>, <<"RingInUse", "ringinuse">>,
    <<"UNAVAILABLE", "unavailable">>, <<"Unavailable", "unavailable">>,
    <<"PAUSED", "paused">>, <<"Paused", "paused">>,
    <<"DND", "dnd">>, <<"Dnd", "dnd">>,
    <<"UNKNOWN", "unknown">>, <<"Unknown", "unknown">>,
    <<"INVALID", "invalid">>, <<"Invalid", "invalid">>,
    <<"UNREACHABLE", "unreachable">>, <<"Unreachable", "unreachable">>,
    <<"ONHOLD", "onhold">>, <<"Talking", "talking">> }

ToLowerCase(s) ==
  IF \E p \in CaseTable : p[1] = s
  THEN (CHOOSE p \in CaseTable : p[1] = s)[2]
  ELSE s

\* A status is a JSON value: "" stands for a missing (falsy) one and
\* NumberStatus for the number 1, a truthy value that has no toLowerCase.
NumberStatus == "#1"
IsString(status) == status # NumberStatus
TypeError == "TypeError"

\* the canonical status, or TypeError when the call throws
mapAsteriskStatusToStandard(status) ==
  IF status = "" THEN "offline"
  ELSE IF ~IsString(status) THEN TypeError
  ELSE LET statusLower == ToLowerCase(status) IN
       CASE statusLower \in {"not_inuse", "available", "idle", "free"} -> "available"
         [] statusLower \in {"inuse", "busy", "ringing", "ringinuse"} -> "busy"
         [] statusLower \in {"unavailable", "paused", "dnd"} -> "away"
         [] statusLower \in {"unknown", "invalid", "unreachable"} -> "offline"
         [] OTHER -> "offline"

\* ---------------------------------------------------------- upstream payloads
\* departments of an agent DTO: absent, an array of queue ids, or a truthy
\* value that is not an array (on which .includes is not a function).
NoDepartments == [kind |-> "absent", items |-> {}]
DeptArray(S) == [kind |-> "array", items |-> S]
DeptObject == [kind |-> "object", items |-> {}]

NoCall == [present |-> FALSE, duration |-> 0]
CurrentCall(d) == [present |-> TRUE, duration |-> d]

AgentDTO(n, st, depts, deptId, call) ==
  [id |-> Ext(n), extension |-> Ext(n), status |-> st, departments |-> depts,
   departmentId |-> deptId, currentCall |-> call]

QueueDTO(n, waiting, longest, avg, answered, abandoned, tot, avail, oncall) ==
  [id |-> QueueId(n), waitingCalls |-> waiting, longestWait |-> longest,
   averageWait |-> avg, answeredCalls |-> answered, abandonedCalls |-> abandoned,
   totalAgents |-> tot, agentsAvailable |-> avail, agentsOnCall |-> oncall]

CallDTO(id, uniqueid, ext, dur, start) ==
  [id |-> id, uniqueid |-> uniqueid, extension |-> ext, duration |-> dur,
   startTime |-> start]

\* The listings the provider can serve; the provider moves between them.
\* The second one has an agent whose departments field is not an array, no
\* queues and no calls.
Snapshots ==
  << [agents |-> << AgentDTO(1000, "busy", DeptArray({QueueId(1)}), Undefined, CurrentCall(3)),
                    AgentDTO(1001, "NOT_INUSE", NoDepartments, QueueId(1), NoCall) >>,
      queues |-> << QueueDTO(1, 11, 400, 60, 7, 1, 0, 0, 0),
                    QueueDTO(2, 10, 300, 20, 4, 0, 5, 3, 2) >>,
      calls  |-> << CallDTO(Undefined, Uid(1), Ext(1000), 3, -1) >>],
     [agents |-> << AgentDTO(1001, "DND", DeptObject, Undefined, NoCall) >>,
      queues |-> << >>,
      calls  |-> << >>] >>

\* Outcomes of the Math.random() draws of one mock generator call, in
\* thousandths: for the roster one draw per position for the status and one
\* shared draw for the call fields; for the queues and the calls one shared
\* draw.
MockAgentDraws ==
  { [status |-> [i \in 0..11 |-> (i * 250) % 1000], other |-> 990],
    [status |-> [i \in 0..11 |-> 0], other |-> 0] }
MockQueueDraws == {990}
MockCallDraws == {0}

RandomBelow(draw, n) == (draw * n) \div 1000

\* ------------------------------------------------------------ mock generators
DefaultDepartment == <<"name", 0, 0>>
QueueName(n) == <<"name", n, 0>>
MockStatuses == <<"available", "busy", "away", "offline">>

getMockAgents(draw) ==
  [k \in 1..12 |->
     LET i == k - 1
         status == MockStatuses[RandomBelow(draw.status[i], 4) + 1]
     IN [id |-> AgentId(i + 1),
         extension |-> Ext(1000 + i),
         status |-> status,
         department |-> QueueName((i % 4) + 1),
         departmentId |-> QueueId((i % 4) + 1),
         departments |-> DeptArray({QueueId((i % 4) + 1)}),
         currentCall |-> IF status = "busy" /\ draw.other > 700
                         THEN CurrentCall(RandomBelow(draw.other, 600))
                         ELSE NoCall]]

MockQueue(n, draw, w, l, a, answered, abandoned, agents, avail, oncall) ==
  [id |-> QueueId(n), name |-> QueueName(n),
   waitingCalls |-> RandomBelow(draw, w),
   longestWait |-> RandomBelow(draw, l),
   averageWait |-> RandomBelow(draw, a),
   answeredCalls |-> answered, abandonedCalls |-> abandoned,
   agents |-> agents, agentsAvailable |-> avail, agentsOnCall |-> oncall]

getMockQueues(draw) ==
  << MockQueue(1, draw, 5, 300, 120, 142, 8, 8, 5, 3),
     MockQueue(2, draw, 8, 400, 90, 220, 10, 12, 7, 5),
     MockQueue(3, draw, 3, 200, 60, 82, 3, 6, 4, 2),
     MockQueue(4, draw, 10, 600, 180, 305, 15, 15, 8, 7) >>

\* as getMockCalls, with a count that starts at zero
getMockCallsFromZero(draw, t) ==
  LET activeCount == RandomBelow(draw, 8)
  IN [k \in 1..activeCount |->
        [id |-> MockCallId(t, k - 1),
         uniqueid |-> <<"mockuid", t, k - 1>>,
         agentExtension |-> Ext(1000 + RandomBelow(draw, 12)),
         duration |-> RandomBelow(draw, 600),
         startTime |-> t - RandomBelow(draw, 600)]]

getMockCalls(draw, t) ==
  LET activeCount == RandomBelow(draw, 8) + 2
  IN [k \in 1..activeCount |->
        [id |-> MockCallId(t, k - 1),
         uniqueid |-> <<"mockuid", t, k - 1>>,
         agentExtension |-> Ext(1000 + RandomBelow(draw, 12)),
         duration |-> RandomBelow(draw, 600),
         startTime |-> t - RandomBelow(draw, 600)]]

\* ------------------------------------------------------- active-call registry
\* The registry is a JavaScript Map: a sequence of entries in insertion
\* order with pairwise distinct keys (entry.id is the key).
RegistryIndex(reg, key) ==
  LET hits == {i \in 1..Len(reg) : reg[i].id = key}
  IN IF hits = {} THEN 0 ELSE CHOOSE i \in hits : TRUE

\* as MapSet, with the insertion left to a later tick
MapSetDeferred(reg, entry) == reg

\* as MapSet, adding a slot even when the key is already there
MapSetAppending(reg, entry) == Append(reg, entry)

\* Map.prototype.set: replace in place, or append
MapSet(reg, entry) ==
  LET i == RegistryIndex(reg, entry.id)
  IN IF i = 0 THEN Append(reg, entry) ELSE [reg EXCEPT ![i] = entry]

FirstIndex(S) == IF S = {} THEN 0 ELSE CHOOSE i \in S : \A j \in S : i <= j

\* index of the entry getActiveCallForUser returns, 0 for null
getActiveCallForUser(reg, userId) ==
  FirstIndex({i \in 1..Len(reg) : reg[i].extension = userId \/ reg[i].id = userId})

\* as EndedIndex, ending the oldest call whatever the identifier
EndedIndexOldest(reg, uniqueid) == IF reg = << >> THEN 0 ELSE 1

\* as EndedIndex, falling back to the newest call when nothing matches
EndedIndexOrNewest(reg, uniqueid) ==
  LET hits == {i \in 1..Len(reg) : reg[i].uniqueid = uniqueid \/ reg[i].id = uniqueid}
  IN IF hits = {} THEN Len(reg) ELSE FirstIndex(hits)

\* index of the entry handleCallEnded removes, 0 when the loop finds none
EndedIndex(reg, uniqueid) ==
  FirstIndex({i \in 1..Len(reg) : reg[i].uniqueid = uniqueid \/ reg[i].id = uniqueid})

\* as RefreshAt, handing out the duration stored by an earlier refresh
RefreshAtStale(reg, idxs, t) == reg

RefreshAt(reg, idxs, t) ==
  [i \in 1..Len(reg) |->
     IF i \in idxs THEN [reg[i] EXCEPT !.duration = t - reg[i].startTime] ELSE reg[i]]

\* as updateCallDurations, adding the elapsed time to the stored duration
updateCallDurationsAdding(reg, t) ==
  [i \in 1..Len(reg) |-> [reg[i] EXCEPT !.duration = @ + (t - reg[i].startTime)]]

updateCallDurations(reg, t) == RefreshAt(reg, 1..Len(reg), t)

\* ------------------------------------------------------------- normalisation
LooksUpCall(dto) == dto.status = "busy" /\ dto.currentCall.present

MapAgent(dto, reg, t) ==
  LET idx == IF LooksUpCall(dto) THEN getActiveCallForUser(reg, dto.id) ELSE 0
  IN [id |-> IF dto.id # Undefined THEN dto.id ELSE dto.extension,
      extension |-> dto.extension,
      status |-> mapAsteriskStatusToStandard(dto.status),
      department |-> DefaultDepartment,
      departmentId |-> IF dto.departmentId # Undefined THEN dto.departmentId
                       ELSE QueueId(0),
      departments |-> IF dto.departments.kind # "absent" THEN dto.departments
                      ELSE DeptArray({IF dto.departmentId # Undefined
                                      THEN dto.departmentId ELSE QueueId(0)}),
      currentCall |-> IF ~LooksUpCall(dto) THEN NoCall
                      ELSE IF idx # 0 THEN CurrentCall(t - reg[idx].startTime)
                      ELSE CurrentCall(dto.currentCall.duration)]

\* the callback of agents.map throws for some agent
MapAgentsThrows(dtos) ==
  \E k \in 1..Len(dtos) : mapAsteriskStatusToStandard(dtos[k].status) = TypeError

MapAgents(dtos, reg, t) == [k \in 1..Len(dtos) |-> MapAgent(dtos[k], reg, t)]

\* registry after the lookups of one agent mapping (each lookup that finds
\* an entry stores the refreshed duration in it)
\* the agents whose callback runs before the listing's first throw ends
\* the map; that agent's own lookup precedes its status mapping
AgentsUntilThrow(dtos) ==
  SubSeq(dtos, 1, FirstIndex({k \in 1..Len(dtos) :
                    mapAsteriskStatusToStandard(dtos[k].status) = TypeError}))

RegistryAfterMapAgents(dtos, reg, t) ==
  RefreshAt(reg, {getActiveCallForUser(reg, dtos[k].id) :
                    k \in {j \in 1..Len(dtos) : LooksUpCall(dtos[j])}} \ {0}, t)

MapQueue(dto) ==
  [id |-> dto.id, name |-> QueueName(dto.id[2]),
   waitingCalls |-> dto.waitingCalls, longestWait |-> dto.longestWait,
   averageWait |-> dto.averageWait,
   answeredCalls |-> dto.answeredCalls, abandonedCalls |-> dto.abandonedCalls,
   agents |-> dto.totalAgents, agentsAvailable |-> dto.agentsAvailable,
   agentsOnCall |-> dto.agentsOnCall]

MapQueues(dtos) == [k \in 1..Len(dtos) |-> MapQueue(dtos[k])]

MapCall(dto, t) ==
  [id |-> IF dto.id # Undefined THEN dto.id ELSE dto.uniqueid,
   uniqueid |-> dto.uniqueid,
   agentExtension |-> dto.extension,
   duration |-> dto.duration,
   startTime |-> IF dto.startTime >= 0 THEN dto.startTime ELSE t]

MapCalls(dtos, t) == [k \in 1..Len(dtos) |-> MapCall(dtos[k], t)]

\* ------------------------------------------------------------------ statistics
\* agent.departments?.includes(queue.id) || agent.departmentId === queue.id
\*   || agent.department === queue.name
InQueue(agent, queue) ==
  \/ queue.id \in agent.departments.items
  \/ agent.departmentId = queue.id
  \/ agent.department = queue.name

\* .includes on a truthy value that is neither an array nor a string
FilterThrows(agents, queues) ==
  /\ queues # <<>>
  /\ \E k \in 1..Len(agents) : agents[k].departments.kind = "object"

RecomputeQueueCounts(queues, agents) ==
  [k \in 1..Len(queues) |->
     LET queue == queues[k]
         members == {j \in 1..Len(agents) : InQueue(agents[j], queue)}
     IN [queue EXCEPT
           !.agents = IF @ = 0 THEN Cardinality(members) ELSE @,
           !.agentsAvailable =
              IF @ = 0
              THEN Cardinality({j \in members : agents[j].status = "available"})
              ELSE @,
           !.agentsOnCall =
              IF @ = 0
              THEN Cardinality({j \in members : agents[j].currentCall.present})
              ELSE @]]

\* as CountStatus, with the tally of every status started at 1
CountStatusFromOne(agents, st) ==
  Cardinality({k \in 1..Len(agents) : agents[k].status = st}) + 1

CountStatus(agents, st) == Cardinality({k \in 1..Len(agents) : agents[k].status = st})

\* the value getCallCenterStats resolves to; averageWaitTime is kept as the
\* pair <<numerator, denominator>> of the division
StatsOf(agents, queues, calls) ==
  [agents |-> [total |-> Len(agents),
               available |-> CountStatus(agents, "available"),
               busy |-> CountStatus(agents, "busy"),
               offline |-> CountStatus(agents, "offline"),
               away |-> CountStatus(agents, "away"),
               paused |-> CountStatus(agents, "paused")],
   calls |-> [active |-> Len(calls),
              waiting |-> SeqSum([k \in 1..Len(queues) |-> queues[k].waitingCalls]),
              answered |-> SeqSum([k \in 1..Len(queues) |-> queues[k].answeredCalls]),
              abandoned |-> SeqSum([k \in 1..Len(queues) |-> queues[k].abandonedCalls])],
   queues |-> [total |-> Len(queues),
               averageWaitTime |->
                 << SeqSum([k \in 1..Len(queues) |-> queues[k].averageWait]),
                    IF Len(queues) = 0 THEN 1 ELSE Len(queues) >>,
               longestWaitTime |->
                 SeqMax([k \in 1..Len(queues) |-> queues[k].longestWait])]]

StatsThrew == [threw |-> TRUE]
getCallCenterStats(agents, queues, calls) ==
  IF FilterThrows(agents, queues) THEN StatsThrew
  ELSE [threw |-> FALSE, value |-> StatsOf(agents, queues, calls)]

\* ---------------------------------------------------------------- alert rules
Alert(type, title, queueId, n, m) ==
  [type |-> type, title |-> title, queueId |-> queueId, n |-> n, m |-> m]

\* as QueueAlerts, with both thresholds inclusive
QueueAlertsAtLimit(queue) ==
  (IF queue.longestWait >= LongWaitLimit
   THEN << Alert("warning", "Long Wait Time", queue.id, queue.longestWait \div 60, 0) >>
   ELSE << >>)
  \o
  (IF queue.waitingCalls >= HighVolumeLimit
   THEN << Alert("warning", "High Queue Volume", queue.id, queue.waitingCalls, 0) >>
   ELSE << >>)

QueueAlerts(queue) ==
  (IF queue.longestWait > LongWaitLimit
   THEN << Alert("warning", "Long Wait Time", queue.id, queue.longestWait \div 60, 0) >>
   ELSE << >>)
  \o
  (IF queue.waitingCalls > HighVolumeLimit
   THEN << Alert("warning", "High Queue Volume", queue.id, queue.waitingCalls, 0) >>
   ELSE << >>)

RECURSIVE AllQueueAlerts(_)
AllQueueAlerts(queues) ==
  IF queues = <<>> THEN << >>
  ELSE QueueAlerts(Head(queues)) \o AllQueueAlerts(Tail(queues))

\* as AvailabilityAlerts, with the 20% limit inclusive
AvailabilityAlertsAtLimit(agents) ==
  LET totalAgents == Len(agents)
      availableAgents == CountStatus(agents, "available")
  IN IF totalAgents > 0 /\ availableAgents * 5 <= totalAgents
     THEN << Alert("error", "Low Agent Availability", Undefined,
                   availableAgents, totalAgents) >>
     ELSE << >>

\* totalAgents > 0 && availableAgents < totalAgents * 0.2
\* (the double product totalAgents * 0.2 is exact for every multiple of 5
\* below 2000, so the comparison is the integer one)
AvailabilityAlerts(agents) ==
  LET totalAgents == Len(agents)
      availableAgents == CountStatus(agents, "available")
  IN IF totalAgents > 0 /\ availableAgents * 5 < totalAgents
     THEN << Alert("error", "Low Agent Availability", Undefined,
                   availableAgents, totalAgents) >>
     ELSE << >>

\* !this.freepbxService.connectorUrl || this.freepbxService.useMockData
ConnectivityAlerts(url, mock) ==
  IF url = "" \/ mock
  THEN << Alert("error", "Connector Offline", Undefined, 0, 0) >>
  ELSE << >>

\* as AlertCheckDue, with the window compared in the wrong unit (30 ms)
AlertCheckDueWrongUnit(t, last) == ~(t - last < AlertWindow \div 1000)

\* the 30 s guard of checkAndEmitAlerts
AlertCheckDue(t, last) == ~(t - last < AlertWindow)

\* as checkAndEmitAlerts, silent once an earlier evaluation has run
checkAndEmitAlertsOnce(queues, agents, t, last, url, mock) ==
  IF ~AlertCheckDue(t, last)
  THEN [ran |-> FALSE, alerts |-> << >>, last |-> last]
  ELSE [ran |-> TRUE,
        alerts |-> IF last # 0 THEN << >>
                   ELSE AllQueueAlerts(queues) \o AvailabilityAlerts(agents)
                          \o ConnectivityAlerts(url, mock),
        last |-> t]

\* ran: the guard let the evaluation through; alerts: the list it built;
\* last: lastAlertCheck afterwards
checkAndEmitAlerts(queues, agents, t, last, url, mock) ==
  IF ~AlertCheckDue(t, last)
  THEN [ran |-> FALSE, alerts |-> << >>, last |-> last]
  ELSE [ran |-> TRUE,
        alerts |-> AllQueueAlerts(queues) \o AvailabilityAlerts(agents)
                     \o ConnectivityAlerts(url, mock),
        last |-> t]

\* ------------------------------------------------------------------- fetches
\* One upstream fetch as it resolves at time t against the provider state
\* up = [up, snap]: val is the list the caller gets, mock tells whether it is
\* the synthetic fallback, reg is the registry after the fetch.
getAgents(up, reg, t, draw) ==
  IF up.up /\ up.agents # << >> /\ ~MapAgentsThrows(up.agents)
  THEN [val |-> MapAgents(up.agents, reg, t), mock |-> FALSE,
        reg |-> RegistryAfterMapAgents(up.agents, reg, t)]
  ELSE [val |-> getMockAgents(draw.agents), mock |-> TRUE,
        reg |-> IF up.up /\ up.agents # << >>
                THEN RegistryAfterMapAgents(AgentsUntilThrow(up.agents), reg, t)
                ELSE reg]

getQueues(up, reg, t, draw) ==
  IF up.up /\ up.queues # << >>
  THEN [val |-> MapQueues(up.queues), mock |-> FALSE, reg |-> reg]
  ELSE [val |-> getMockQueues(draw.queues), mock |-> TRUE, reg |-> reg]

\* as getActiveCalls, with a failed request answered by an empty list
getActiveCallsNoFallback(up, reg, t, draw) ==
  IF up.up
  THEN [val |-> MapCalls(up.calls, t), mock |-> FALSE, reg |-> reg]
  ELSE [val |-> << >>, mock |-> FALSE, reg |-> reg]

getActiveCalls(up, reg, t, draw) ==
  IF up.up
  THEN [val |-> MapCalls(up.calls, t), mock |-> FALSE, reg |-> reg]
  ELSE [val |-> getMockCalls(draw.calls, t), mock |-> TRUE, reg |-> reg]

MockDraws == [agents : MockAgentDraws, queues : MockQueueDraws, calls : MockCallDraws]

ReqNames == {"agents", "queues", "calls", "sAgents", "sQueues", "sCalls"}
StatsReqs == {"sAgents", "sQueues", "sCalls"}

Fetch(r, up, reg, t, draw) ==
  CASE r \in {"agents", "sAgents"} -> getAgents(up, reg, t, draw)
    [] r \in {"queues", "sQueues"} -> getQueues(up, reg, t, draw)
    [] OTHER -> getActiveCalls(up, reg, t, draw)

Pending == [state |-> "pending"]
Consumed == [state |-> "consumed"]
Got(v, m) == [state |-> "got", val |-> v, mock |-> m]

\* ---------------------------------------------------------------- broadcasts
Broadcast(ch, tick, payload, synthetic) ==
  [channel |-> ch, tick |-> tick, payload |-> payload, synthetic |-> synthetic]

\* as TickBroadcasts, with the alert check moved in front of the four emits
TickBroadcastsAlertsFirst(id, agents, queues, calls, stats, alerts) ==
  (IF alerts # << >>
   THEN << Broadcast("dashboard:alerts", id, alerts, FALSE) >>
   ELSE << >>)
  \o << Broadcast("dashboard:agents", id, agents.val, agents.mock),
        Broadcast("dashboard:queues", id, queues.val, queues.mock),
        Broadcast("dashboard:calls", id, calls.val, calls.mock),
        Broadcast("dashboard:stats", id, stats.val.value, stats.mock) >>

\* lines 141-147: the four emits, then the alerts emit of checkAndEmitAlerts
TickBroadcasts(id, agents, queues, calls, stats, alerts) ==
  << Broadcast("dashboard:agents", id, agents.val, agents.mock),
     Broadcast("dashboard:queues", id, queues.val, queues.mock),
     Broadcast("dashboard:calls", id, calls.val, calls.mock),
     Broadcast("dashboard:stats", id, stats.val.value, stats.mock) >>
  \o (IF alerts # << >>
      THEN << Broadcast("dashboard:alerts", id, alerts, FALSE) >>
      ELSE << >>)

\* as ErrorBroadcasts, with the error emitted once more by a rethrow handler
ErrorBroadcastsTwice(id) ==
  << Broadcast("dashboard:error", id, "Data update failed", FALSE),
     Broadcast("dashboard:error", id, "Data update failed", FALSE) >>

\* the catch block of broadcastUpdates
ErrorBroadcasts(id) ==
  << Broadcast("dashboard:error", id, "Data update failed", FALSE) >>

NoEvaluation == [invoked |-> FALSE]

VARIABLES
  connectorUrl,      \* FreePBXService.connectorUrl
  useMockData,       \* FreePBXService.useMockData
  pollingInterval,   \* WebSocketHandler.pollingInterval: 0 for null, else a timer handle
  timers,            \* the runtime's armed intervals: handle -> time of the next firing
  now,               \* the wall clock
  lastAlertCheck,    \* WebSocketHandler.lastAlertCheck
  activeCallsMap,    \* the active-call registry
  upstream,          \* the provider: reachable or not, and the listing it serves
  ticks,             \* broadcastUpdates invocations awaiting their fetches, oldest first
  refreshes,         \* broadcastCallUpdate invocations awaiting getAgents, oldest first
  sockets,           \* the connected subscribers and their initial-stats requests
  out,               \* what the last step emitted through io.emit, in order
  evaluation,        \* the checkAndEmitAlerts invocation of the last step, if any
  everEvaluated,     \* checkAndEmitAlerts has been invoked
  lastAlertsAt,      \* time of the latest dashboard:alerts broadcast, -1 if none
  tickCount,         \* broadcastUpdates invocations so far
  eventCount,        \* connector events so far
  changeCount,       \* provider changes so far
  limits,            \* how many ticks, events, provider changes and connections this run may have
  lastOp             \* the operation the last step ran

vars == << connectorUrl, useMockData, pollingInterval, timers, now, lastAlertCheck,
           activeCallsMap, upstream, ticks, refreshes, sockets, out, evaluation,
           everEvaluated, lastAlertsAt, tickCount, eventCount, changeCount, limits,
           lastOp >>

config == << connectorUrl, useMockData, limits >>
hub == << pollingInterval, timers >>
alerting == << lastAlertCheck, everEvaluated, lastAlertsAt >>
counters == << tickCount, eventCount, changeCount >>

\* process.env.PBX_CONNECTOR_ENDPOINT: unset, or the address of a connector
Endpoints == {"", "http://pbx.example:8080"}

\* connectorUrl || process.env.PBX_CONNECTOR_ENDPOINT || 'http://localhost:8080'
ConnectorUrlOf(endpoint) == IF endpoint # "" THEN endpoint ELSE DefaultConnectorUrl
\* !this.connectorUrl || this.connectorUrl === 'http://localhost:8080'
UseMockDataOf(url) == url = "" \/ url = DefaultConnectorUrl

\* The provider is unreachable or serves one of the listings.  With
\* useMockData no request is ever sent to it, and it is left out.
Provider(up, listing) ==
  [up |-> up, agents |-> listing.agents, queues |-> listing.queues,
   calls |-> listing.calls]
Unreachable == Provider(FALSE, [agents |-> << >>, queues |-> << >>, calls |-> << >>])
Serving(k) == Provider(TRUE, Snapshots[k])
ProviderStates == {Unreachable} \cup {Serving(k) : k \in 1..Len(Snapshots)}

\* What one run may contain: polling alone against any provider state,
\* connector events around one tick, connector events alone (with or
\* without events that lack a provider id), the provider changing under one
\* tick, or a subscriber connecting around one tick.
\* the uniqueid of a posted call event: missing or a provider id
EventUids == {Undefined, Uid(1)}
\* events that all carry a provider id, of two calls
ProviderUids == {Uid(1), Uid(2)}

Budgets ==
  { [ticks |-> MaxTicks, events |-> 0, changes |-> 0, connections |-> 0,
     providers |-> ProviderStates, uids |-> EventUids],
    [ticks |-> MaxTicks - 1, events |-> MaxEvents - 1, changes |-> 0,
     connections |-> 0, providers |-> {Serving(1)}, uids |-> EventUids],
    [ticks |-> 0, events |-> MaxEvents, changes |-> 0, connections |-> 0,
     providers |-> {Serving(1)}, uids |-> EventUids],
    [ticks |-> 0, events |-> MaxEvents, changes |-> 0, connections |-> 0,
     providers |-> {Serving(1)}, uids |-> ProviderUids],
    [ticks |-> MaxTicks - 1, events |-> 0, changes |-> MaxChanges, connections |-> 0,
     providers |-> {Serving(1)}, uids |-> EventUids],
    [ticks |-> MaxTicks - 1, events |-> 0, changes |-> 0,
     connections |-> MaxConnections, providers |-> ProviderStates,
     uids |-> EventUids] }

Init ==
  /\ \E endpoint \in Endpoints :
       /\ connectorUrl = ConnectorUrlOf(endpoint)
       /\ useMockData = UseMockDataOf(ConnectorUrlOf(endpoint))
  /\ pollingInterval = 0
  /\ timers = << >>
  /\ now = 0
  /\ lastAlertCheck = 0
  /\ activeCallsMap = << >>
  /\ limits \in Budgets
  /\ upstream \in IF useMockData THEN {Unreachable} ELSE limits.providers
  /\ ticks = << >>
  /\ refreshes = << >>
  /\ sockets = << >>
  /\ out = << >>
  /\ evaluation = NoEvaluation
  /\ everEvaluated = FALSE
  /\ lastAlertsAt = -1
  /\ tickCount = 0
  /\ eventCount = 0
  /\ changeCount = 0
  /\ lastOp = "constructor"

\* ------------------------------------------------------------ tick completion
RemoveAt(seq, i) == SubSeq(seq, 1, i - 1) \o SubSeq(seq, i + 1, Len(seq))

NewTick(id, t) ==
  [id |-> id, issuedAt |-> t, failed |-> FALSE,
   req |-> [r \in ReqNames |-> Pending], stats |-> Pending]

HasPending(tk) == \E r \in ReqNames : tk.req[r] = Pending

\* getCallCenterStats continues once its own three fetches have resolved
Settle(tk) ==
  IF tk.stats = Pending /\ \A r \in StatsReqs : tk.req[r].state = "got"
  THEN [tk EXCEPT
          !.stats = Got(getCallCenterStats(tk.req["sAgents"].val, tk.req["sQueues"].val,
                                           tk.req["sCalls"].val),
                        tk.req["sAgents"].mock),
          !.req = [r \in ReqNames |-> IF r \in StatsReqs THEN Consumed ELSE tk.req[r]]]
  ELSE tk

\* as Outcome, with a Promise.all that never settles
OutcomeNever(tk) == "wait"

\* how the Promise.all of broadcastUpdates stands for tick tk
Outcome(tk) ==
  IF tk.failed THEN "wait"
  ELSE IF tk.stats.state = "got" /\ tk.stats.val.threw THEN "error"
  ELSE IF /\ tk.stats.state = "got"
          /\ \A r \in {"agents", "queues", "calls"} : tk.req[r].state = "got"
       THEN "data"
  ELSE "wait"

Evaluation(id, t, queues, agents, ev, lastBefore, alertsBefore, first) ==
  [invoked |-> TRUE, tick |-> id, at |-> t, queues |-> queues, agents |-> agents,
   ran |-> ev.ran, alerts |-> ev.alerts, lastBefore |-> lastBefore,
   alertsBefore |-> alertsBefore, first |-> first]

\* lines 137-149 of broadcastUpdates, run on the resolved lists with the
\* registry reg; ticksAfter are the invocations still awaiting
EmitData(id, agents, queues, calls, stats, reg, ticksAfter) ==
  LET ev == checkAndEmitAlerts(queues.val, agents.val, now, lastAlertCheck,
                               connectorUrl, useMockData)
  IN /\ activeCallsMap' = updateCallDurations(reg, now)
     /\ out' = TickBroadcasts(id, agents, queues, calls, stats, ev.alerts)
     /\ lastAlertCheck' = ev.last
     /\ evaluation' = Evaluation(id, now, queues.val, agents.val, ev, lastAlertCheck,
                                 lastAlertsAt, ~everEvaluated)
     /\ everEvaluated' = TRUE
     /\ lastAlertsAt' = IF ev.alerts # << >> THEN now ELSE lastAlertsAt
     /\ ticks' = ticksAfter

\* lines 151-160 of broadcastUpdates
EmitError(id, reg, ticksAfter) ==
  /\ activeCallsMap' = reg
  /\ out' = ErrorBroadcasts(id)
  /\ ticks' = ticksAfter
  /\ evaluation' = NoEvaluation
  /\ UNCHANGED alerting

\* broadcastUpdates up to its await.  With useMockData every fetch resolves
\* without leaving the event-loop turn, so the whole tick runs in this step;
\* otherwise the six requests are issued and the invocation waits.
broadcastUpdates ==
  /\ tickCount < limits.ticks
  /\ tickCount' = tickCount + 1
  /\ IF useMockData
     THEN \E d, ds \in MockDraws :
            LET stats == getCallCenterStats(getMockAgents(ds.agents),
                                            getMockQueues(ds.queues),
                                            getMockCalls(ds.calls, now))
            IN EmitData(tickCount + 1, Got(getMockAgents(d.agents), TRUE),
                        Got(getMockQueues(d.queues), TRUE),
                        Got(getMockCalls(d.calls, now), TRUE),
                        Got(stats, TRUE), activeCallsMap, ticks)
     ELSE /\ Len(ticks) < MaxInFlight
          /\ ticks' = Append(ticks, NewTick(tickCount + 1, now))
          /\ out' = << >>
          /\ evaluation' = NoEvaluation
          /\ UNCHANGED << activeCallsMap, alerting >>

\* ---------------------------------------------------------------- the hub
\* as AlreadyPolling, with the guard of startPolling lost
AlreadyPollingNever(handle) == FALSE

AlreadyPolling(handle) == handle # 0

FreshHandle == CHOOSE h \in 1..(Cardinality(DOMAIN timers) + 1) : h \notin DOMAIN timers

startPolling ==
  \/ /\ AlreadyPolling(pollingInterval)
     /\ lastOp' = "startPolling"
     /\ out' = << >>
     /\ evaluation' = NoEvaluation
     /\ UNCHANGED << config, sockets, hub, now, activeCallsMap, upstream, ticks, refreshes,
                     alerting, counters >>
  \/ /\ ~AlreadyPolling(pollingInterval)
     /\ lastOp' = "startPolling"
     /\ Cardinality(DOMAIN timers) < MaxTimers
     /\ pollingInterval' = FreshHandle
     /\ timers' = [h \in DOMAIN timers \cup {FreshHandle} |->
                     IF h = FreshHandle THEN now + UpdateInterval ELSE timers[h]]
     /\ broadcastUpdates
     /\ UNCHANGED << config, sockets, now, upstream, refreshes, eventCount, changeCount >>

\* as stopPolling, forgetting the handle without clearing the timer
stopPollingLeavingTimer ==
  /\ lastOp' = "stopPolling"
  /\ IF pollingInterval # 0
     THEN /\ timers' = timers
          /\ pollingInterval' = 0
     ELSE UNCHANGED hub
  /\ out' = << >>
  /\ evaluation' = NoEvaluation
  /\ UNCHANGED << config, sockets, now, activeCallsMap, upstream, ticks, refreshes, alerting,
                  counters >>

stopPolling ==
  /\ lastOp' = "stopPolling"
  /\ IF pollingInterval # 0
     THEN /\ timers' = [h \in DOMAIN timers \ {pollingInterval} |-> timers[h]]
          /\ pollingInterval' = 0
     ELSE UNCHANGED hub
  /\ out' = << >>
  /\ evaluation' = NoEvaluation
  /\ UNCHANGED << config, sockets, now, activeCallsMap, upstream, ticks, refreshes, alerting,
                  counters >>

\* the setInterval callback of an armed timer
TimerFire ==
  \E h \in DOMAIN timers :
    /\ timers[h] <= now
    /\ lastOp' = "TimerFire"
    /\ timers' = [timers EXCEPT ![h] = now + UpdateInterval]
    /\ broadcastUpdates
    /\ UNCHANGED << config, sockets, pollingInterval, now, upstream, refreshes, eventCount,
                    changeCount >>

\* the requests of one invocation, in the order broadcastUpdates issues them
ReqOrder == << "agents", "queues", "calls", "sAgents", "sQueues", "sCalls" >>

\* The provider serves the requests of one invocation in the order they were
\* issued; requests of different invocations are served in any order.
NextRequest(tk) ==
  ReqOrder[FirstIndex({k \in 1..Len(ReqOrder) : tk.req[ReqOrder[k]] = Pending})]

\* the next request of an awaiting tick resolves (or, the provider being
\* unreachable, fails and falls back)
Respond ==
  \E i \in 1..Len(ticks), draw \in MockDraws :
    /\ HasPending(ticks[i])
    /\ lastOp' = "Respond"
    /\ \E f \in {Fetch(NextRequest(ticks[i]), upstream, activeCallsMap, now, draw)} :
       \E tk \in {Settle([ticks[i] EXCEPT
                             !.req[NextRequest(ticks[i])] = Got(f.val, f.mock)])} :
       LET oc == Outcome(tk)
       IN CASE oc = "data" ->
                 EmitData(tk.id, tk.req["agents"], tk.req["queues"], tk.req["calls"],
                          tk.stats, f.reg, RemoveAt(ticks, i))
            [] oc = "error" ->
                 EmitError(tk.id, f.reg,
                           IF HasPending(tk)
                           THEN [ticks EXCEPT ![i] = [tk EXCEPT !.failed = TRUE]]
                           ELSE RemoveAt(ticks, i))
            [] OTHER ->
                 /\ ticks' = (IF tk.failed /\ ~HasPending(tk)
                              THEN RemoveAt(ticks, i)
                              ELSE [ticks EXCEPT ![i] = tk])
                 /\ activeCallsMap' = f.reg
                 /\ out' = << >>
                 /\ evaluation' = NoEvaluation
                 /\ UNCHANGED alerting
    /\ UNCHANGED << config, sockets, hub, now, upstream, refreshes, counters >>

\* ------------------------------------------------------------ discrete events
EventExts == {Undefined, Ext(1000)}
EventStatuses == {"busy"}

\* the emit of broadcastCallUpdate once getAgents has resolved to agents
AgentUpdated(agents, mock, extension) ==
  LET hits == {k \in 1..Len(agents) : agents[k].extension = extension}
  IN IF hits = {} THEN << >>
     ELSE << Broadcast("agent:updated", 0, agents[FirstIndex(hits)], mock) >>

\* io.emit('connector:event', event) of the route: the event as posted
ConnectorEvent(type, data) ==
  << Broadcast("connector:event", 0, [type |-> type, data |-> data], FALSE) >>

\* event.data of a posted event
EventData(uniqueid, extension) == [uniqueid |-> uniqueid, extension |-> extension]

\* broadcastCallUpdate(extension), called when extension is truthy, after the
\* broadcasts pre have been emitted by the synchronous code of the step
broadcastCallUpdate(extension, pre) ==
  IF extension = Undefined
  THEN out' = pre /\ UNCHANGED refreshes
  ELSE IF useMockData
  THEN /\ \E draw \in MockDraws :
            out' = pre \o AgentUpdated(getMockAgents(draw.agents), TRUE, extension)
       /\ UNCHANGED refreshes
  ELSE /\ Len(refreshes) < MaxRefresh
       /\ refreshes' = Append(refreshes, [extension |-> extension, issuedAt |-> now,
                                       event |-> eventCount + 1])
       /\ out' = pre

\* as CallInfo, with every entry stored under a generated key
CallInfoTimeKeyed(uniqueid, extension, t) ==
  [id |-> GeneratedCallId(t),
   uniqueid |-> uniqueid, extension |-> extension, startTime |-> t, duration |-> 0]

CallInfo(uniqueid, extension, t) ==
  [id |-> IF uniqueid # Undefined THEN uniqueid ELSE GeneratedCallId(t),
   uniqueid |-> uniqueid, extension |-> extension, startTime |-> t, duration |-> 0]

\* POST /api/connector/event with type call.started
handleCallStarted ==
  \E uniqueid \in limits.uids, extension \in EventExts :
    LET callInfo == CallInfo(uniqueid, extension, now)
    IN /\ eventCount < limits.events
       /\ eventCount' = eventCount + 1
       /\ lastOp' = "handleCallStarted"
       /\ Len(MapSet(activeCallsMap, callInfo)) <= MaxCalls
       /\ activeCallsMap' = MapSet(activeCallsMap, callInfo)
       /\ broadcastCallUpdate(extension,
            << Broadcast("call:started", 0, callInfo, FALSE) >>
              \o ConnectorEvent("call.started", EventData(uniqueid, extension)))
       /\ evaluation' = NoEvaluation
       /\ UNCHANGED << config, sockets, hub, now, upstream, ticks, alerting, tickCount,
                       changeCount >>

\* POST /api/connector/event with type call.ended
handleCallEnded ==
  \E uniqueid \in limits.uids :
    LET idx == EndedIndex(activeCallsMap, uniqueid)
    IN /\ eventCount < limits.events
       /\ eventCount' = eventCount + 1
       /\ lastOp' = "handleCallEnded"
       /\ IF idx = 0
          THEN /\ out' = ConnectorEvent("call.ended", EventData(uniqueid, Undefined))
               /\ UNCHANGED << activeCallsMap, refreshes >>
          ELSE LET removedCall == [activeCallsMap[idx] EXCEPT
                                     !.duration = now - activeCallsMap[idx].startTime]
               IN /\ activeCallsMap' = RemoveAt(activeCallsMap, idx)
                  /\ broadcastCallUpdate(removedCall.extension,
                       << Broadcast("call:ended", 0, removedCall, FALSE) >>
                         \o ConnectorEvent("call.ended", EventData(uniqueid, Undefined)))
       /\ evaluation' = NoEvaluation
       /\ UNCHANGED << config, sockets, hub, now, upstream, ticks, alerting, tickCount,
                       changeCount >>

\* as handleAgentStatus, refreshing the stored call durations on the way
handleAgentStatusRefreshing ==
  \E extension \in EventExts \ {Undefined}, status \in EventStatuses :
    /\ eventCount < limits.events
    /\ eventCount' = eventCount + 1
    /\ lastOp' = "handleAgentStatus"
    /\ out' = << Broadcast("agent:status", 0,
                           [extension |-> extension, status |-> status], FALSE) >>
                \o ConnectorEvent("agent.status", [extension |-> extension, status |-> status])
    /\ evaluation' = NoEvaluation
    /\ activeCallsMap' = updateCallDurations(activeCallsMap, now)
    /\ UNCHANGED << config, sockets, hub, now, upstream, ticks, refreshes,
                    alerting, tickCount, changeCount >>

\* POST /api/connector/event with type agent.status
handleAgentStatus ==
  \E extension \in EventExts \ {Undefined}, status \in EventStatuses :
    /\ eventCount < limits.events
    /\ eventCount' = eventCount + 1
    /\ lastOp' = "handleAgentStatus"
    /\ out' = << Broadcast("agent:status", 0,
                           [extension |-> extension, status |-> status], FALSE) >>
                \o ConnectorEvent("agent.status", [extension |-> extension, status |-> status])
    /\ evaluation' = NoEvaluation
    /\ UNCHANGED << config, sockets, hub, now, activeCallsMap, upstream, ticks, refreshes,
                    alerting, tickCount, changeCount >>

\* the getAgents of an awaiting broadcastCallUpdate resolves
RefreshRespond ==
  \E i \in 1..Len(refreshes), draw \in MockDraws :
    LET f == getAgents(upstream, activeCallsMap, now, draw)
    IN /\ lastOp' = "RefreshRespond"
       /\ out' = AgentUpdated(f.val, f.mock, refreshes[i].extension)
       /\ activeCallsMap' = f.reg
       /\ refreshes' = RemoveAt(refreshes, i)
       /\ evaluation' = NoEvaluation
       /\ UNCHANGED << config, sockets, hub, now, upstream, ticks, alerting, counters >>

\* ---------------------------------------------------------------- environment
\* the provider goes down, comes back, or serves another listing
\* ------------------------------------------------------------- subscribers
\* a socket and the three fetches of the getCallCenterStats call made for it
NewSocket(id, t) ==
  [id |-> id, issuedAt |-> t, req |-> [r \in StatsReqs |-> Pending], sent |-> 0]

AwaitsStats(sk) == \E r \in StatsReqs : sk.req[r] = Pending

\* socket.emit: to that socket alone
SocketEmit(id, ch, payload, synthetic) ==
  [channel |-> ch, tick |-> 0, payload |-> payload, synthetic |-> synthetic,
   socket |-> id]

\* io.on('connection').  With useMockData the stats promise resolves without
\* leaving the event-loop turn and the initial stats are emitted in this
\* step; otherwise the three requests are issued and the handler returns.
connection ==
  /\ Len(sockets) < limits.connections
  /\ lastOp' = "connection"
  /\ IF useMockData
     THEN \E ds \in MockDraws :
            LET stats == getCallCenterStats(getMockAgents(ds.agents),
                                            getMockQueues(ds.queues),
                                            getMockCalls(ds.calls, now))
                sk == [NewSocket(Len(sockets) + 1, now) EXCEPT
                         !.req = [r \in StatsReqs |-> Consumed],
                         !.sent = IF stats.threw THEN 0 ELSE 1]
            IN /\ sockets' = Append(sockets, sk)
               /\ out' = IF stats.threw THEN << >>
                         ELSE << SocketEmit(sk.id, "dashboard:initial_stats",
                                            stats.value, TRUE) >>
     ELSE /\ sockets' = Append(sockets, NewSocket(Len(sockets) + 1, now))
          /\ out' = << >>
  /\ evaluation' = NoEvaluation
  /\ UNCHANGED << config, hub, now, activeCallsMap, upstream, ticks, refreshes,
                  alerting, counters >>

StatsOrder == << "sAgents", "sQueues", "sCalls" >>

\* the next request made for a socket resolves; after the third the then
\* callback emits the stats to the socket, or the catch callback logs
InitialStatsRespond ==
  \E i \in 1..Len(sockets), draw \in MockDraws :
    /\ AwaitsStats(sockets[i])
    /\ lastOp' = "InitialStatsRespond"
    /\ LET r == StatsOrder[FirstIndex({k \in 1..3 : sockets[i].req[StatsOrder[k]] = Pending})]
           f == Fetch(r, upstream, activeCallsMap, now, draw)
           sk == [sockets[i] EXCEPT !.req[r] = Got(f.val, f.mock)]
           stats == getCallCenterStats(sk.req["sAgents"].val, sk.req["sQueues"].val,
                                       sk.req["sCalls"].val)
       IN /\ activeCallsMap' = f.reg
          /\ IF AwaitsStats(sk)
             THEN /\ sockets' = [sockets EXCEPT ![i] = sk]
                  /\ out' = << >>
             ELSE /\ sockets' = [sockets EXCEPT ![i] =
                                   [sk EXCEPT !.req = [q \in StatsReqs |-> Consumed],
                                              !.sent = IF stats.threw THEN 0 ELSE 1]]
                  /\ out' = IF stats.threw THEN << >>
                            ELSE << SocketEmit(sk.id, "dashboard:initial_stats",
                                               stats.value, sk.req["sAgents"].mock) >>
    /\ evaluation' = NoEvaluation
    /\ UNCHANGED << config, hub, now, upstream, ticks, refreshes, alerting, counters >>

UpstreamChange ==
  \E u \in ProviderStates :
    /\ ~useMockData
    /\ changeCount < limits.changes
    /\ lastOp' = "UpstreamChange"
    /\ changeCount' = changeCount + 1
    /\ u # upstream
    /\ upstream' = u
    /\ out' = << >>
    /\ evaluation' = NoEvaluation
    /\ UNCHANGED << config, sockets, hub, now, activeCallsMap, ticks, refreshes, alerting,
                    tickCount, eventCount >>

\* Time passes.  An armed interval fires when it is due, and the HTTP client
\* settles every request within its 10 s timeout.
Advance ==
  /\ lastOp' = "Advance"
  /\ now + ClockStep <= MaxTime
  /\ \A h \in DOMAIN timers : timers[h] > now
  /\ \A i \in 1..Len(ticks) :
       HasPending(ticks[i]) => now + ClockStep <= ticks[i].issuedAt + RequestTimeout
  /\ \A i \in 1..Len(refreshes) :
       now + ClockStep <= refreshes[i].issuedAt + RequestTimeout
  /\ \A i \in 1..Len(sockets) :
       AwaitsStats(sockets[i]) => now + ClockStep <= sockets[i].issuedAt + RequestTimeout
  /\ now' = now + ClockStep
  /\ out' = << >>
  /\ evaluation' = NoEvaluation
  /\ UNCHANGED << config, sockets, hub, activeCallsMap, upstream, ticks, refreshes, alerting,
                  counters >>

Next ==
  \/ startPolling
  \/ stopPolling
  \/ TimerFire
  \/ Respond
  \/ handleCallStarted
  \/ handleCallEnded
  \/ handleAgentStatus
  \/ RefreshRespond
  \/ connection
  \/ InitialStatsRespond
  \/ UpstreamChange
  \/ Advance

Spec == Init /\ [][Next]_vars

\* ------------------------------------------------ the alert check on its own
\* checkAndEmitAlerts applied to chosen lists: total agents of which
\* available are available, and one or two queues around the thresholds.
Roster(total, available) ==
  [k \in 1..total |->
     [id |-> AgentId(k), extension |-> Ext(k),
      status |-> IF k <= available THEN "available" ELSE "busy"]]

QueueAt(n, waiting, longest) == MapQueue(QueueDTO(n, waiting, longest, 0, 0, 0, 0, 0, 0))

QueueInputs ==
  { << >>,
    << QueueAt(1, 10, 300) >>, << QueueAt(1, 11, 300) >>,
    << QueueAt(1, 10, 301) >>, << QueueAt(1, 11, 400) >>,
    << QueueAt(1, 11, 400), QueueAt(2, 10, 300) >>,
    << QueueAt(1, 10, 301), QueueAt(2, 11, 400) >> }

InitAlerts ==
  /\ \E endpoint \in Endpoints :
       /\ connectorUrl = ConnectorUrlOf(endpoint)
       /\ useMockData = UseMockDataOf(ConnectorUrlOf(endpoint))
  /\ pollingInterval = 0
  /\ timers = << >>
  /\ now = 0
  /\ lastAlertCheck = 0
  /\ activeCallsMap = << >>
  /\ limits = [ticks |-> 0, events |-> 0, changes |-> 0, connections |-> 0, providers |-> {Unreachable},
               uids |-> EventUids]
  /\ upstream = Unreachable
  /\ ticks = << >>
  /\ refreshes = << >>
  /\ sockets = << >>
  /\ out = << >>
  /\ evaluation = NoEvaluation
  /\ everEvaluated = FALSE
  /\ lastAlertsAt = -1
  /\ tickCount = 0
  /\ eventCount = 0
  /\ changeCount = 0
  /\ lastOp = "constructor"

\* the first call of checkAndEmitAlerts(queues, agents) on the hub
EvaluateAlerts ==
  \E total \in 0..MaxAgents, queues \in QueueInputs :
    \E available \in 0..total :
      LET agents == Roster(total, available)
          ev == checkAndEmitAlerts(queues, agents, now, lastAlertCheck,
                                   connectorUrl, useMockData)
      IN /\ ~everEvaluated
         /\ lastOp' = "checkAndEmitAlerts"
         /\ lastAlertCheck' = ev.last
         /\ evaluation' = Evaluation(0, now, queues, agents, ev, lastAlertCheck,
                                     lastAlertsAt, ~everEvaluated)
         /\ everEvaluated' = TRUE
         /\ lastAlertsAt' = IF ev.alerts # << >> THEN now ELSE lastAlertsAt
         /\ out' = IF ev.alerts # << >>
                   THEN << Broadcast("dashboard:alerts", 0, ev.alerts, FALSE) >>
                   ELSE << >>
         /\ UNCHANGED << config, sockets, hub, now, activeCallsMap, upstream, ticks,
                         refreshes, counters >>

NextAlerts ==
  \/ EvaluateAlerts
  \/ Advance

SpecAlerts == InitAlerts /\ [][NextAlerts]_vars

\* ------------------------------------------------- status normalisation alone
\* The provider serves one agent; its status is any word of the lookup in
\* lower, upper or mixed case, a word the lookup does not have, a missing
\* status or a number.
StatusInputs ==
  {p[1] : p \in CaseTable} \cup {p[2] : p \in CaseTable} \cup {"", NumberStatus}

AgentListings ==
  { [agents |-> << AgentDTO(n, st, NoDepartments, QueueId(1), call) >>,
     queues |-> << >>, calls |-> << >>] :
      n \in {1000, 1001}, st \in StatusInputs, call \in {NoCall, CurrentCall(3)} }

InitStatus ==
  /\ connectorUrl = ConnectorUrlOf("http://pbx.example:8080")
  /\ useMockData = UseMockDataOf(connectorUrl)
  /\ pollingInterval = 0
  /\ timers = << >>
  /\ now = 0
  /\ lastAlertCheck = 0
  /\ activeCallsMap = << >>
  /\ limits = [ticks |-> 0, events |-> 0, changes |-> 0, connections |-> 0, providers |-> {Unreachable},
               uids |-> EventUids]
  /\ upstream \in {Provider(TRUE, l) : l \in AgentListings}
  /\ ticks = << >>
  /\ refreshes = << >>
  /\ sockets = << >>
  /\ out = << >>
  /\ evaluation = NoEvaluation
  /\ everEvaluated = FALSE
  /\ lastAlertsAt = -1
  /\ tickCount = 0
  /\ eventCount = 0
  /\ changeCount = 0
  /\ lastOp = "constructor"

\* GET /api/agents: one call of getAgents, its result sent as the response
ApiAgents ==
  \E draw \in MockDraws :
    LET f == getAgents(upstream, activeCallsMap, now, draw)
    IN /\ lastOp = "constructor"
       /\ lastOp' = "getAgents"
       /\ activeCallsMap' = f.reg
       /\ out' = << Broadcast("GET /api/agents", 0, f.val, f.mock) >>
       /\ evaluation' = NoEvaluation
       /\ UNCHANGED << config, sockets, hub, now, upstream, ticks, refreshes, alerting, counters >>

NextStatus == ApiAgents

SpecStatus == InitStatus /\ [][NextStatus]_vars

\* ------------------------------------------------ polling with slow responses
\* The hub polls a provider that always serves the first listing and takes
\* up to MaxLatency seconds to answer the requests of a tick.
InitWindow ==
  /\ connectorUrl = ConnectorUrlOf("http://pbx.example:8080")
  /\ useMockData = UseMockDataOf(connectorUrl)
  /\ pollingInterval = 0
  /\ timers = << >>
  /\ now = 0
  /\ lastAlertCheck = 0
  /\ activeCallsMap = << >>
  /\ limits = [ticks |-> WindowTicks, events |-> 0, changes |-> 0, connections |-> 0,
               providers |-> {Serving(1)}, uids |-> EventUids]
  /\ upstream = Serving(1)
  /\ ticks = << >>
  /\ refreshes = << >>
  /\ sockets = << >>
  /\ out = << >>
  /\ evaluation = NoEvaluation
  /\ everEvaluated = FALSE
  /\ lastAlertsAt = -1
  /\ tickCount = 0
  /\ eventCount = 0
  /\ changeCount = 0
  /\ lastOp = "constructor"

\* Time passes: second by second while a tick awaits its responses, else up
\* to the next firing of the interval.
Elapse ==
  /\ lastOp' = "Elapse"
  /\ IF \E i \in 1..Len(ticks) : HasPending(ticks[i])
     THEN /\ \A i \in 1..Len(ticks) :
               HasPending(ticks[i]) => now + 1 <= ticks[i].issuedAt + MaxLatency
          /\ now' = now + 1
     ELSE /\ DOMAIN timers # {}
          /\ \A h \in DOMAIN timers : timers[h] > now
          /\ \E h \in DOMAIN timers :
               /\ \A g \in DOMAIN timers : timers[h] <= timers[g]
               /\ now' = timers[h]
  /\ now' <= WindowTime
  /\ out' = << >>
  /\ evaluation' = NoEvaluation
  /\ UNCHANGED << config, sockets, hub, activeCallsMap, upstream, ticks, refreshes,
                  alerting, counters >>

NextWindow ==
  \/ startPolling
  \/ TimerFire
  \/ Respond
  \/ Elapse

SpecWindow == InitWindow /\ [][NextWindow]_vars

\* ------------------------------------------------- polling under a fair loop
\* The event loop runs every callback that is ready: a due interval fires,
\* a request that has been sent is answered or is ended by the 10 s timeout
\* of the HTTP client, and time passes.  Nothing obliges the process to be
\* told to start or to stop.  A connector is configured, so that every tick
\* awaits its requests.
InitLive ==
  /\ \E endpoint \in Endpoints \ {""} :
       /\ connectorUrl = ConnectorUrlOf(endpoint)
       /\ useMockData = UseMockDataOf(ConnectorUrlOf(endpoint))
  /\ pollingInterval = 0
  /\ timers = << >>
  /\ now = 0
  /\ lastAlertCheck = 0
  /\ activeCallsMap = << >>
  /\ limits = [ticks |-> MaxTicks, events |-> 0, changes |-> 0, connections |-> 0,
               providers |-> ProviderStates, uids |-> EventUids]
  /\ upstream \in IF useMockData THEN {Unreachable} ELSE limits.providers
  /\ ticks = << >>
  /\ refreshes = << >>
  /\ sockets = << >>
  /\ out = << >>
  /\ evaluation = NoEvaluation
  /\ everEvaluated = FALSE
  /\ lastAlertsAt = -1
  /\ tickCount = 0
  /\ eventCount = 0
  /\ changeCount = 0
  /\ lastOp = "constructor"

NextLive == startPolling \/ stopPolling \/ TimerFire \/ Respond \/ Advance

SpecLive ==
  /\ InitLive
  /\ [][NextLive]_vars
  /\ WF_vars(TimerFire)
  /\ WF_vars(Respond)
  /\ WF_vars(Advance)

\* ======================================================================= claims
DataChannels ==
  << "dashboard:agents", "dashboard:queues", "dashboard:calls", "dashboard:stats" >>
TickChannels == Range(DataChannels) \cup {"dashboard:alerts", "dashboard:error"}

Emitted(ch) == \E i \in 1..Len(out) : out[i].channel = ch
\* the last step emitted the data broadcasts of a tick
DataEmitted == Len(out) >= 4 /\ out[1].channel = "dashboard:agents"
TickIds(tks) == {tks[k].id : k \in 1..Len(tks)}

\* ---- C1
TimerInvariant ==
  /\ Cardinality(DOMAIN timers) <= 1
  /\ pollingInterval # 0 => DOMAIN timers = {pollingInterval}
  /\ pollingInterval = 0 => DOMAIN timers = {}

IgnoredStart ==
  (pollingInterval # 0 /\ lastOp' = "startPolling")
    => (UNCHANGED << pollingInterval, timers, ticks, tickCount >> /\ out' = << >>)

\* C1: after any sequence of startPolling and stopPolling calls at most one
\* polling timer is armed (and it is the one pollingInterval holds); a
\* startPolling call made while the hub is polling arms no timer, starts no
\* tick and emits nothing.
C1_SingleTimer == []TimerInvariant /\ [][IgnoredStart]_vars

\* a startPolling call was ignored: with a connector configured every start
\* that is not ignored leaves its tick awaiting
C1_Witness ==
  /\ lastOp = "startPolling"
  /\ ~useMockData
  /\ pollingInterval # 0
  /\ ticks = << >>
  /\ tickCount >= 1

\* ---- C2
\* C2: while the hub is idle (no timer armed, pollingInterval null) no
\* dashboard:agents, dashboard:queues, dashboard:calls, dashboard:stats,
\* dashboard:alerts or dashboard:error broadcast is emitted: the results of a
\* tick whose fetches were in flight when stopPolling was called are discarded.
C2_NoBroadcastWhileIdle ==
  pollingInterval = 0 => \A i \in 1..Len(out) : out[i].channel \notin TickChannels

\* ---- C3
TickGroup ==
  /\ Len(out) \in {4, 5}
  /\ \A i \in 1..4 : out[i].channel = DataChannels[i]
  /\ Len(out) = 5 => out[5].channel = "dashboard:alerts"
  /\ \A i \in 1..Len(out) : out[i].tick = out[1].tick
  /\ out[1].tick \notin TickIds(ticks)

\* a tick that stops awaiting has emitted, in that step, its data group or
\* its error; a tick that runs without awaiting has emitted its data group
TickEndsEmitting ==
  /\ \A id \in TickIds(ticks) \ TickIds(ticks') :
       /\ out' # << >>
       /\ out'[1].tick = id
       /\ out'[1].channel \in {"dashboard:agents", "dashboard:error"}
  /\ (useMockData /\ tickCount' # tickCount) =>
       (out' # << >> /\ out'[1].tick = tickCount' /\ out'[1].channel = "dashboard:agents")

\* C3: the broadcasts of a successful tick are emitted in one step as the
\* group dashboard:agents, dashboard:queues, dashboard:calls, dashboard:stats,
\* once each and all of the same tick, with nothing of another tick or of a
\* discrete event between them; a dashboard:alerts broadcast of the tick comes
\* only after the four; the tick emits no second group, and every tick that
\* ends without an error has emitted its group.
C3_AtomicTickBroadcasts ==
  /\ []((\E i \in 1..Len(out) :
            out[i].channel \in Range(DataChannels) \cup {"dashboard:alerts"})
          => TickGroup)
  /\ [][TickEndsEmitting]_vars

\* a tick emits its group, alerts included, while a later tick is awaiting
C3_Witness ==
  /\ DataEmitted
  /\ Len(out) = 5
  /\ ~useMockData
  /\ ticks # << >>

\* ---- C4
ErrorEmitted == Emitted("dashboard:error")

ErrorStep ==
  (out' # << >> /\ out'[1].channel = "dashboard:error")
    => /\ UNCHANGED << pollingInterval, timers >>
       /\ out'[1].tick \in TickIds(ticks)

\* C4: a tick whose aggregation throws emits exactly one dashboard:error and
\* nothing else, and is then over; the step leaves pollingInterval and the
\* armed timer as they were, so a polling hub keeps its timer for the next
\* tick.
C4_OneErrorPerFailedTick ==
  /\ [](ErrorEmitted =>
          /\ Len(out) = 1
          /\ \A k \in 1..Len(ticks) : ticks[k].id = out[1].tick => ticks[k].failed
          /\ pollingInterval # 0 => pollingInterval \in DOMAIN timers)
  /\ [][ErrorStep]_vars

\* the second tick of a polling hub fails after the first one has failed:
\* the provider serves the malformed listing throughout
C4_Witness ==
  /\ ErrorEmitted
  /\ out[1].tick = 2
  /\ ticks = << >>
  /\ limits.changes = 0
  /\ pollingInterval # 0
  /\ now >= UpdateInterval

\* ---- C5
\* C5: the dashboard:stats payload of a tick agrees with the lists emitted in
\* the same tick: it is the statistics of exactly those agent, queue and call
\* lists (agent total and per-status counts, active calls, queue totals).
C5_StatsAgreeWithLists ==
  DataEmitted => out[4].payload = StatsOf(out[1].payload, out[2].payload, out[3].payload)

\* ---- C6
\* C6: every call of a tick's dashboard:calls broadcast whose identifier is a
\* key of the registry is emitted with the registry's duration, now minus the
\* registry start time.
C6_RegistryDurationWins ==
  DataEmitted =>
    \A k \in 1..Len(out[3].payload) :
      LET call == out[3].payload[k]
          idx == RegistryIndex(activeCallsMap, call.id)
      IN idx # 0 => call.duration = now - activeCallsMap[idx].startTime

\* ---- C7
\* C7: the queues of a tick's dashboard:queues broadcast carry agent counts
\* recomputed from the tick's agent list wherever the count is zero: the
\* emitted list is what the recomputation makes of it.
C7_QueueCountsRecomputed ==
  DataEmitted => out[2].payload = RecomputeQueueCounts(out[2].payload, out[1].payload)

\* ---- C8
\* C8: an invocation of the alert check less than 30 s after the last one
\* that ran produces no alerts, emits no dashboard:alerts and leaves
\* lastAlertCheck unchanged; a dashboard:alerts broadcast comes only from a
\* check that ran, at least 30 s after the previous dashboard:alerts.
C8_AlertDebounce ==
  /\ (evaluation.invoked /\ evaluation.at - evaluation.lastBefore < AlertWindow)
       => /\ evaluation.alerts = << >>
          /\ lastAlertCheck = evaluation.lastBefore
          /\ ~Emitted("dashboard:alerts")
  /\ Emitted("dashboard:alerts")
       => /\ evaluation.invoked /\ evaluation.ran
          /\ lastAlertCheck = now
          /\ evaluation.alertsBefore >= 0 => now - evaluation.alertsBefore >= AlertWindow

\* a check with a qualifying queue is suppressed after an earlier
\* dashboard:alerts broadcast
C8_Witness ==
  /\ evaluation.invoked
  /\ ~evaluation.ran
  /\ evaluation.alertsBefore >= 0
  /\ AllQueueAlerts(evaluation.queues) # << >>

\* ---- C9
\* C9: the first invocation of the alert check on a hub, given a queue whose
\* longestWait is 400 s, returns a Long Wait Time warning for it, whatever
\* the time since the hub was constructed.
C9_FirstCheckAlerts ==
  (evaluation.invoked /\ evaluation.first) =>
    \A k \in 1..Len(evaluation.queues) :
      evaluation.queues[k].longestWait = 400 =>
        \E a \in 1..Len(evaluation.alerts) :
          /\ evaluation.alerts[a].title = "Long Wait Time"
          /\ evaluation.alerts[a].queueId = evaluation.queues[k].id

\* ---- C10
\* C10: an alert check that runs while the provider is unhealthy (no endpoint
\* configured, or the tick's lists are the synthetic fallback) yields exactly
\* one Connector Offline error alert, and it is broadcast.
C10_OfflineAlertWhenUnhealthy ==
  (DataEmitted /\ evaluation.ran
     /\ (useMockData \/ \E i \in 1..3 : out[i].synthetic))
    => /\ Cardinality({a \in 1..Len(evaluation.alerts) :
                         evaluation.alerts[a].title = "Connector Offline"}) = 1
       /\ Emitted("dashboard:alerts")

\* ---- C11
ProviderUnreachable == useMockData \/ (upstream = Unreachable /\ limits.changes = 0)

\* C11: the tick that startPolling runs against an unreachable endpoint
\* broadcasts the 12-entry synthetic roster on dashboard:agents and a
\* dashboard:alerts that includes the Connector Offline error alert.
C11_UnreachableStart ==
  (DataEmitted /\ out[1].tick = 1 /\ ProviderUnreachable)
    => /\ out[1].synthetic
       /\ Len(out[1].payload) = 12
       /\ Len(out) = 5
       /\ \E a \in 1..Len(out[5].payload) :
            /\ out[5].payload[a].type = "error"
            /\ out[5].payload[a].title = "Connector Offline"

\* ---- C12
AlertsWith(title, queueId) ==
  {a \in 1..Len(evaluation.alerts) :
     /\ evaluation.alerts[a].title = title
     /\ evaluation.alerts[a].queueId = queueId}

\* C12: in an evaluation that runs, the number of warning alerts is the
\* number of queues with longestWait > 300 plus the number of queues with
\* waitingCalls > 10; each queue gets one Long Wait Time alert exactly when
\* its longestWait exceeds 300 and one High Queue Volume alert exactly when
\* its waitingCalls exceeds 10 (none at 300 or at 10, two when both exceed).
C12_QueueAlertCounts ==
  (evaluation.invoked /\ evaluation.ran) =>
    LET qs == evaluation.queues
        al == evaluation.alerts
    IN /\ Cardinality({a \in 1..Len(al) : al[a].type = "warning"})
            = Cardinality({k \in 1..Len(qs) : qs[k].longestWait > 300})
              + Cardinality({k \in 1..Len(qs) : qs[k].waitingCalls > 10})
       /\ \A k \in 1..Len(qs) :
            /\ Cardinality(AlertsWith("Long Wait Time", qs[k].id))
                 = IF qs[k].longestWait > 300 THEN 1 ELSE 0
            /\ Cardinality(AlertsWith("High Queue Volume", qs[k].id))
                 = IF qs[k].waitingCalls > 10 THEN 1 ELSE 0
            /\ \A a \in AlertsWith("Long Wait Time", qs[k].id)
                   \cup AlertsWith("High Queue Volume", qs[k].id) :
                 al[a].type = "warning"

\* an evaluation ran on a queue over both thresholds and a queue at both
C12_Witness ==
  /\ evaluation.invoked /\ evaluation.ran
  /\ \E k \in 1..Len(evaluation.queues) :
       evaluation.queues[k].waitingCalls = 11 /\ evaluation.queues[k].longestWait = 400
  /\ \E k \in 1..Len(evaluation.queues) :
       evaluation.queues[k].waitingCalls = 10 /\ evaluation.queues[k].longestWait = 300
  /\ Cardinality({a \in 1..Len(evaluation.alerts) :
                    evaluation.alerts[a].type = "warning"}) = 2

\* ---- C13
LowAvailability ==
  {a \in 1..Len(evaluation.alerts) :
     evaluation.alerts[a].title = "Low Agent Availability"}

\* C13: in an evaluation that runs there is one Low Agent Availability error
\* alert, carrying the available and the total count, exactly when the agent
\* list is not empty and five times the available agents is less than the
\* total (1 of 10: alert; 2 of 10: none; no agents: none); otherwise none.
C13_LowAvailability ==
  (evaluation.invoked /\ evaluation.ran) =>
    LET total == Len(evaluation.agents)
        available == Cardinality({k \in 1..total :
                                    evaluation.agents[k].status = "available"})
    IN /\ Cardinality(LowAvailability)
            = IF total > 0 /\ 5 * available < total THEN 1 ELSE 0
       /\ \A a \in LowAvailability :
            /\ evaluation.alerts[a].type = "error"
            /\ evaluation.alerts[a].n = available
            /\ evaluation.alerts[a].m = total

\* an evaluation ran on ten agents of whom one is available
C13_Witness ==
  /\ evaluation.invoked /\ evaluation.ran
  /\ Len(evaluation.agents) = 10
  /\ CountStatus(evaluation.agents, "available") = 1
  /\ LowAvailability # {}

\* ---- C14
\* the event posted in the step that emitted o
HandledEvent(o) ==
  o[CHOOSE i \in 1..Len(o) : o[i].channel = "connector:event"].payload

Without(reg, key) ==
  LET Other(c) == c.id # key IN SelectSeq(reg, Other)

CallEndedIn(o) == {i \in 1..Len(o) : o[i].channel = "call:ended"}

EndOfStartedCall ==
  (/\ lastOp' = "handleCallEnded"
   /\ HandledEvent(out').data.uniqueid # Undefined
   /\ RegistryIndex(activeCallsMap, HandledEvent(out').data.uniqueid) # 0)
    => LET X == HandledEvent(out').data.uniqueid
           entry == activeCallsMap[RegistryIndex(activeCallsMap, X)]
       IN /\ Len(activeCallsMap') = Len(activeCallsMap) - 1
          /\ activeCallsMap' = Without(activeCallsMap, X)
          /\ Cardinality(CallEndedIn(out')) = 1
          /\ out'[1].channel = "call:ended"
          /\ out'[1].payload.id = X
          /\ out'[1].payload.startTime = entry.startTime
          /\ out'[1].payload.duration = now' - entry.startTime
          /\ out'[1].payload.duration >= 0

\* C14: a call-ended event with identifier X handled while the registry holds
\* the entry a call-started event with X made (in particular right after that
\* event) removes exactly that entry, leaves every other entry as it was, and
\* broadcasts the removed record once, with duration now minus its start
\* time, which is not negative.
C14_StartThenEnd == [][EndOfStartedCall]_vars

\* the call X ends some time after it started, while a call that was
\* started before it stays in the registry
C14_Witness ==
  /\ lastOp = "handleCallEnded"
  /\ CallEndedIn(out) # {}
  /\ out[1].payload.uniqueid = Uid(1)
  /\ out[1].payload.duration > 0
  /\ activeCallsMap # << >>

\* ---- C15
NoMatch(reg, X) == \A i \in 1..Len(reg) : reg[i].id # X /\ reg[i].uniqueid # X

UnmatchedEnd ==
  (/\ lastOp' = "handleCallEnded"
   /\ NoMatch(activeCallsMap, HandledEvent(out').data.uniqueid))
    => /\ UNCHANGED << activeCallsMap, refreshes >>
       /\ CallEndedIn(out') = {}
       /\ Len(out') = 1

\* C15: a call-ended event whose identifier equals no entry's key and no
\* entry's provider id leaves the registry unchanged and emits nothing but
\* the route's connector:event: no call:ended, no agent refresh, no error.
C15_UnmatchedEndIsNoOp == [][UnmatchedEnd]_vars

\* an end for a provider id is ignored while the registry holds another call,
\* after an earlier end
C15_Witness ==
  /\ lastOp = "handleCallEnded"
  /\ CallEndedIn(out) = {}
  /\ HandledEvent(out).data.uniqueid = Uid(1)
  /\ activeCallsMap # << >>
  /\ eventCount = 3

\* ---- C16
EndWithoutIdentifier ==
  (lastOp' = "handleCallEnded" /\ HandledEvent(out').data.uniqueid = Undefined)
    => UNCHANGED activeCallsMap

\* C16: a call-ended event that carries no identifier removes no registry
\* entry.
C16_EndWithoutIdRemovesNothing == [][EndWithoutIdentifier]_vars

\* ---- C17
StartWithoutIdentifier ==
  (lastOp' = "handleCallStarted" /\ HandledEvent(out').data.uniqueid = Undefined)
    => /\ Len(activeCallsMap') = Len(activeCallsMap) + 1
       /\ SubSeq(activeCallsMap', 1, Len(activeCallsMap)) = activeCallsMap

\* C17: a call-started event that carries no provider identifier adds one
\* entry to the registry and leaves every entry that was there in place.
C17_GeneratedKeyIsFresh == [][StartWithoutIdentifier]_vars

\* ---- C18
NoTickBroadcast(o) == \A i \in 1..Len(o) : o[i].channel \notin TickChannels

EventTakesEffect ==
  /\ lastOp' = "handleCallStarted"
       => /\ out'[1].channel = "call:started"
          /\ RegistryIndex(activeCallsMap', out'[1].payload.id) # 0
          /\ activeCallsMap'[RegistryIndex(activeCallsMap', out'[1].payload.id)]
               = out'[1].payload
          /\ NoTickBroadcast(out')
          /\ UNCHANGED << pollingInterval, timers, ticks, tickCount >>
  /\ lastOp' = "handleCallEnded"
       => /\ (EndedIndex(activeCallsMap, HandledEvent(out').data.uniqueid) # 0)
               = (activeCallsMap' # activeCallsMap)
          /\ (activeCallsMap' # activeCallsMap)
               => /\ out'[1].channel = "call:ended"
                  /\ RegistryIndex(activeCallsMap', out'[1].payload.id) = 0
          /\ NoTickBroadcast(out')
          /\ UNCHANGED << pollingInterval, timers, ticks, tickCount >>

\* C18: a call-started or call-ended event is handled in one step, whether
\* the hub is polling or idle and whether or not a tick is awaiting: the step
\* changes the registry and emits call:started / call:ended first, with no
\* tick broadcast in it and no tick started or finished by it.
C18_EventsBypassTicks == [][EventTakesEffect]_vars

\* a call ends on an idle hub while a tick is still awaiting its fetches
C18_Witness ==
  /\ lastOp = "handleCallEnded"
  /\ CallEndedIn(out) # {}
  /\ pollingInterval = 0
  /\ ticks # << >>

\* ---- C19
AgentStatusFrame ==
  lastOp' = "handleAgentStatus"
    => /\ UNCHANGED << activeCallsMap, pollingInterval, timers, lastAlertCheck,
                       ticks, refreshes >>
       /\ LET narrow == {i \in 1..Len(out') : out'[i].channel # "connector:event"}
          IN /\ Cardinality(narrow) = 1
             /\ \A i \in narrow :
                  /\ out'[i].payload.extension = HandledEvent(out').data.extension
                  /\ out'[i].channel \notin
                       TickChannels \cup {"call:started", "call:ended"}

\* C19: an agent-status event leaves the registry (keys and stored entries),
\* the polling state and lastAlertCheck unchanged; besides the route's
\* connector:event it emits one broadcast, about the agent of the event.
C19_AgentStatusFrame == [][AgentStatusFrame]_vars

\* an agent-status event on a polling hub whose registry holds a call that
\* started earlier
C19_Witness ==
  /\ lastOp = "handleAgentStatus"
  /\ pollingInterval # 0
  /\ \E i \in 1..Len(activeCallsMap) : activeCallsMap[i].startTime < now

\* ---- C20
OnlyEventsTouchRegistry ==
  lastOp' \in {"startPolling", "stopPolling", "TimerFire", "Respond", "RefreshRespond"}
    => UNCHANGED activeCallsMap

\* C20: a polling tick (its fetches, participant lookups and duration
\* refresh included) leaves the registry unchanged, key set and stored
\* entries: only the discrete-event handlers change it.
C20_TicksLeaveRegistry == [][OnlyEventsTouchRegistry]_vars

\* ---- C21
\* C21: once a tick has broadcast a snapshot taken after a call without
\* provider id was registered, the registry holds that entry only if the
\* snapshot's call list names it: an entry no end event can match is removed
\* by the next snapshot that does not list the call.
C21_SnapshotPrunesRegistry ==
  DataEmitted =>
    \A i \in 1..Len(activeCallsMap) :
      (activeCallsMap[i].uniqueid = Undefined /\ activeCallsMap[i].startTime < now)
        => \E k \in 1..Len(out[3].payload) :
             out[3].payload[k].id = activeCallsMap[i].id

\* ---- C22
ReadNeverDecreases ==
  \A i \in 1..Len(activeCallsMap) :
    \A j \in 1..Len(activeCallsMap') :
      activeCallsMap'[j].id = activeCallsMap[i].id
        => now' - activeCallsMap'[j].startTime >= now - activeCallsMap[i].startTime

\* C22: for a call identifier that is in the registry before and after a
\* step, the duration a read returns (the seconds since the entry's start
\* time) is after the step at least what it was before it, whatever event
\* the step handled, a repeated call-started for the identifier included.
C22_DurationMonotone == [][ReadNeverDecreases]_vars

\* ---- C23
BusyFromRegistry(agent) ==
  /\ agent.status = "busy"
  /\ agent.currentCall.present
  /\ getActiveCallForUser(activeCallsMap, agent.id) # 0

\* the agent request of an awaiting tick resolves from provider data in this
\* step
AgentsResolve(i) ==
  /\ i <= Len(ticks')
  /\ ticks'[i].id = ticks[i].id
  /\ ticks[i].req["agents"] = Pending
  /\ ticks'[i].req["agents"].state = "got"
  /\ ~ticks'[i].req["agents"].mock

LookupHandsOutElapsed ==
  \A i \in 1..Len(ticks) :
    AgentsResolve(i) =>
      \A k \in 1..Len(ticks'[i].req["agents"].val) :
        LET agent == ticks'[i].req["agents"].val[k] IN
        BusyFromRegistry(agent) =>
          LET idx == getActiveCallForUser(activeCallsMap, agent.id)
          IN /\ agent.currentCall.duration = now - activeCallsMap[idx].startTime
             /\ activeCallsMap'[idx].duration = now - activeCallsMap[idx].startTime

RefreshStoresElapsed ==
  DataEmitted =>
    \A i \in 1..Len(activeCallsMap) :
      activeCallsMap[i].duration = now - activeCallsMap[i].startTime

EndedCarriesElapsed ==
  \A i \in CallEndedIn(out) :
    out[i].payload.duration = now - out[i].payload.startTime

\* C23: a registry call's duration is handed out as now minus the entry's
\* start time: in the currentCall of an agent whose call the participant
\* lookup finds (and in the entry the lookup leaves behind), in every stored
\* entry after the refresh of a tick, and in the call:ended payload.
C23_DurationIsElapsed ==
  [][LookupHandsOutElapsed /\ RefreshStoresElapsed' /\ EndedCarriesElapsed']_vars

\* a tick hands out the call of a busy agent 15 s or more after it started
C23_Witness ==
  /\ DataEmitted
  /\ ~out[1].synthetic
  /\ \E k \in 1..Len(out[1].payload) :
       /\ BusyFromRegistry(out[1].payload[k])
       /\ out[1].payload[k].currentCall.duration >= ClockStep

\* ---- C24
\* C24: every agent of a tick's agent list that is busy with a current call
\* has a call of its own in the registry.
C24_BusyCallInRegistry ==
  DataEmitted =>
    \A k \in 1..Len(out[1].payload) :
      (out[1].payload[k].status = "busy" /\ out[1].payload[k].currentCall.present)
        => getActiveCallForUser(activeCallsMap, out[1].payload[k].id) # 0

\* ---- C25
\* C25: no two registry entries have the same identifier or the same
\* provider id, and every entry is filed under its own identifier: the
\* provider id when the start event had one, else the key generated at its
\* start time.
C25_OneSlotPerCall ==
  /\ \A i, j \in 1..Len(activeCallsMap) :
       i # j =>
         /\ activeCallsMap[i].id # activeCallsMap[j].id
         /\ activeCallsMap[i].uniqueid # Undefined
              => activeCallsMap[i].uniqueid # activeCallsMap[j].uniqueid
  /\ \A i \in 1..Len(activeCallsMap) :
       activeCallsMap[i].id
         = IF activeCallsMap[i].uniqueid # Undefined
           THEN activeCallsMap[i].uniqueid
           ELSE GeneratedCallId(activeCallsMap[i].startTime)

\* a provider call was started again while a call without provider id is
\* registered: three start events, two entries
C25_Witness ==
  /\ Len(activeCallsMap) = 2
  /\ eventCount = 3
  /\ lastOp = "handleCallStarted"
  /\ \E i \in 1..2 : activeCallsMap[i].uniqueid = Uid(1) /\ activeCallsMap[i].startTime = now
  /\ \E i \in 1..2 : activeCallsMap[i].uniqueid = Undefined /\ activeCallsMap[i].startTime < now

\* ---- C26
ListsNonEmpty(o) ==
  \A i \in 1..3 : o[i].synthetic /\ o[i].payload # << >>

MockTickDelivers ==
  (useMockData /\ tickCount' # tickCount) => (DataEmitted' /\ ListsNonEmpty(out'))

\* C26: with the endpoint unset every tick resolves its agent, queue and
\* call fetches in the same step to non-empty synthetic lists and ends in
\* the data broadcasts, never in dashboard:error.
C26_MockFetchesNonEmpty == [][MockTickDelivers]_vars

\* a mock tick with the smallest call list the generator makes
C26_Witness ==
  /\ useMockData
  /\ lastOp = "TimerFire"
  /\ DataEmitted
  /\ Len(out[1].payload) = 12
  /\ Len(out[2].payload) = 4
  /\ Len(out[3].payload) = 2

\* ---- C27
\* C27: no fetch of an awaiting tick has resolved to an empty list: an empty
\* provider listing is replaced by the synthetic dataset.
C27_EmptyListFallsBack ==
  \A k \in 1..Len(ticks) :
    \A r \in ReqNames :
      ticks[k].req[r].state = "got" => ticks[k].req[r].val # << >>

\* ---- C28
AlwaysUnreachable == ~useMockData /\ upstream = Unreachable /\ changeCount = 0

\* C28: while the provider has been unreachable for the whole run, every
\* resolved fetch of an awaiting tick is a non-empty synthetic list, no tick
\* has failed, no dashboard:error is emitted, and the lists a tick
\* broadcasts are synthetic.
C28_FetchFailureFallsBack ==
  AlwaysUnreachable =>
    /\ \A k \in 1..Len(ticks) :
         /\ ~ticks[k].failed
         /\ \A r \in ReqNames :
              ticks[k].req[r].state = "got"
                => ticks[k].req[r].mock /\ ticks[k].req[r].val # << >>
    /\ ~ErrorEmitted
    /\ DataEmitted => ListsNonEmpty(out)

\* a tick against the unreachable provider has ended in the data broadcasts
C28_Witness ==
  /\ AlwaysUnreachable
  /\ lastOp = "Respond"
  /\ DataEmitted
  /\ ListsNonEmpty(out)
  /\ out[4].synthetic

\* ---- C29
CanonicalStatuses == {"available", "busy", "away", "offline"}

\* the lookup as the claim words it, on the lower-case word
StatusClass(word) ==
  CASE word \in {"inuse", "busy", "ringing", "ringinuse"} -> "busy"
    [] word \in {"unavailable", "paused", "dnd"} -> "away"
    [] word \in {"not_inuse", "available", "idle", "free"} -> "available"
    [] OTHER -> "offline"

\* C29: the agent list returned for a provider listing is the listing
\* normalised, one agent per provider agent, each with the canonical status
\* of its provider status whatever the letter case: offline for a missing or
\* unrecognised one, busy, away or available for the words of the lookup.
C29_NormalizationTotal ==
  lastOp = "getAgents" =>
    /\ ~out[1].synthetic
    /\ Len(out[1].payload) = Len(upstream.agents)
    /\ \A k \in 1..Len(out[1].payload) :
         /\ out[1].payload[k].status \in CanonicalStatuses
         /\ out[1].payload[k].status
              = StatusClass(ToLowerCase(upstream.agents[k].status))

\* ---- C30
InitialStatsBeforeTick ==
  DataEmitted' => \A i \in 1..Len(sockets) : sockets[i].sent = 1

\* C30: when a step emits the data broadcasts of a tick, every subscriber
\* connected before that step has already been sent its one
\* dashboard:initial_stats.
C30_InitialStatsFirst == [][InitialStatsBeforeTick]_vars

\* ---- C31
NamedChannels ==
  TickChannels \cup {"agent:updated", "call:started", "call:ended"}

\* what the route and the connection handler emit themselves, not the hub
RouteChannels == {"connector:event", "dashboard:initial_stats", "GET /api/agents"}

\* C31: every broadcast the hub emits in a tick or for a connector event is
\* on a named channel, and the step that handles an agent-status event
\* emits agent:updated.
C31_NamedChannelsOnly ==
  /\ \A i \in 1..Len(out) :
       out[i].channel \notin RouteChannels => out[i].channel \in NamedChannels
  /\ lastOp = "handleAgentStatus" => Emitted("agent:updated")

\* ---- C35
\* C35: at most one invocation of broadcastUpdates awaits its fetches.
C35_OneTickInFlight == Len(ticks) <= 1

\* ---- C32
\* the last step broadcast a tick's call list as the provider served it,
\* and the provider has served the same listing throughout
SnapshotMerged ==
  /\ DataEmitted
  /\ ~useMockData
  /\ ~out[3].synthetic
  /\ changeCount = 0

AlertsBroadcast ==
  {i \in 1..Len(out) : out[i].channel = "dashboard:alerts"}

LongWaitQueues(queues) ==
  {k \in 1..Len(queues) : queues[k].longestWait > LongWaitLimit}

\* C33: every tick whose evaluation comes 30 s or more after the last one
\* that ran evaluates, and for each queue with longestWait > 300 it
\* broadcasts a dashboard:alerts with a Long Wait Time alert for that queue,
\* whether or not an earlier window has broadcast the same alert.
C33_AlertsRepeat ==
  evaluation.invoked =>
    /\ evaluation.ran <=> evaluation.at - evaluation.lastBefore >= AlertWindow
    /\ evaluation.ran =>
         \A k \in LongWaitQueues(evaluation.queues) :
           /\ AlertsWith("Long Wait Time", evaluation.queues[k].id) # {}
           /\ \E i \in AlertsBroadcast : out[i].payload = evaluation.alerts

\* a second window broadcasts the alert of a queue that an earlier
\* dashboard:alerts already reported
C33_Witness ==
  /\ evaluation.invoked /\ evaluation.ran
  /\ evaluation.alertsBefore >= 0
  /\ evaluation.lastBefore = evaluation.alertsBefore
  /\ LongWaitQueues(evaluation.queues) # {}
  /\ AlertsBroadcast # {}

\* ---- C34
StopClearsTimer ==
  lastOp' = "stopPolling" =>
    /\ pollingInterval' = 0
    /\ timers' = << >>
    /\ UNCHANGED << activeCallsMap, ticks, refreshes, sockets, alerting, counters >>
    /\ pollingInterval = 0 => UNCHANGED hub

IdleStartsNoTick ==
  (pollingInterval = 0 /\ tickCount' # tickCount) => lastOp' = "startPolling"

StartArmsOneTimer ==
  (pollingInterval = 0 /\ lastOp' = "startPolling") =>
    /\ pollingInterval' # 0
    /\ DOMAIN timers' = {pollingInterval'}
    /\ timers'[pollingInterval'] = now + UpdateInterval

\* C34: stopPolling leaves the hub idle with no timer armed and changes
\* nothing else (nothing at all on an idle hub); while the hub is idle a
\* tick is started only by startPolling; and a startPolling on an idle hub,
\* after a stop included, leaves exactly one timer armed.
C34_StopReturnsToIdle ==
  [][StopClearsTimer /\ IdleStartsNoTick /\ StartArmsOneTimer]_vars

\* the hub was stopped after its first tick and started again
C34_Witness ==
  /\ useMockData
  /\ lastOp = "startPolling"
  /\ DataEmitted
  /\ out[1].tick = 2
  /\ DOMAIN timers = {pollingInterval}

\* ---- C36
RefreshInOrder ==
  lastOp' = "RefreshRespond" =>
    \A i \in 1..Len(refreshes) :
      refreshes[i] \notin Range(refreshes') =>
        \A j \in 1..Len(refreshes') :
          refreshes'[j].extension = refreshes[i].extension
            => refreshes'[j].event > refreshes[i].event

\* C36: when the refresh of an event emits its agent:updated, no refresh
\* started by an earlier event for the same extension is still waiting.
C36_RefreshesInEventOrder == [][RefreshInOrder]_vars

\* ---- C37
Slots(reg, uid) == {i \in 1..Len(reg) : reg[i].id = uid \/ reg[i].uniqueid = uid}

\* the provider ids that have a slot
Present(reg) == {uid \in ProviderUids : Slots(reg, uid) # {}}

RegistryFollowsLastEvent ==
  LET uid == HandledEvent(out').data.uniqueid IN
  /\ lastOp' = "handleCallStarted" /\ uid # Undefined
       => /\ Present(activeCallsMap') = Present(activeCallsMap) \cup {uid}
          /\ Cardinality(Slots(activeCallsMap', uid)) = 1
  /\ lastOp' = "handleCallEnded" /\ uid # Undefined
       => Present(activeCallsMap') = Present(activeCallsMap) \ {uid}
  /\ lastOp' \notin {"handleCallStarted", "handleCallEnded"}
       => Present(activeCallsMap') = Present(activeCallsMap)

\* C37: a call-started event with a provider id leaves that id in the
\* registry in exactly one slot, a call-ended event with a provider id
\* leaves it absent, and neither changes whether another id is present; no
\* other step changes which ids are present.  When every event carries a
\* provider id the registry has one entry per id that is present.
C37_RegistryFollowsEvents ==
  [][/\ RegistryFollowsLastEvent
     /\ limits.uids = ProviderUids
          => Len(activeCallsMap') = Cardinality(Present(activeCallsMap'))]_vars

\* with the calls of two provider ids registered, one is started again
C37_Witness ==
  /\ limits.uids = ProviderUids
  /\ lastOp = "handleCallStarted"
  /\ eventCount = 3
  /\ Len(activeCallsMap) = 2
  /\ Present(activeCallsMap) = ProviderUids

\* ---- C38
\* the start of the polling, or the latest dashboard:alerts broadcast
LastAlertOrStart == IF lastAlertsAt < 0 THEN 0 ELSE lastAlertsAt

\* C38: while the hub polls a provider whose first queue has longestWait
\* 400 at every tick, no interval of 30 s plus one poll interval goes by
\* without a dashboard:alerts broadcast.
C38_AlertWithinWindow ==
  pollingInterval # 0 => now <= LastAlertOrStart + AlertWindow + UpdateInterval

\* ---- C39
\* the invocation of broadcastUpdates numbered id awaits its requests
TickAwaiting(id) == \E i \in 1..Len(ticks) : ticks[i].id = id /\ ~ticks[i].failed

\* the invocation numbered id has just emitted its four lists or its error
TickFinished(id) ==
  /\ out # << >>
  /\ out[1].tick = id
  /\ \/ /\ Len(out) >= 4
        /\ << out[1].channel, out[2].channel, out[3].channel, out[4].channel >>
             = << "dashboard:agents", "dashboard:queues", "dashboard:calls",
                  "dashboard:stats" >>
     \/ /\ Len(out) = 1
        /\ out[1].channel = "dashboard:error"

\* the hub polls and its interval is due within the run
TickToCome ==
  /\ pollingInterval # 0
  /\ tickCount < limits.ticks
  /\ timers[pollingInterval] <= MaxTime

\* C39: every invocation of broadcastUpdates that awaits its requests goes on
\* to emit the four data broadcasts or one dashboard:error, given that every
\* request is answered or times out; and a hub that polls has its interval
\* start a further tick unless it is stopped first.
C39_TicksFinishAndRecur ==
  /\ \A id \in 1..MaxTicks : TickAwaiting(id) ~> TickFinished(id)
  /\ TickToCome ~> (lastOp = "TimerFire" \/ pollingInterval = 0)

\* the tick of the first interval, started by the timer, ends with its lists
C39_Witness ==
  /\ lastOp = "Respond"
  /\ pollingInterval # 0
  /\ TickFinished(MaxTicks)
  /\ DataEmitted
  /\ now = UpdateInterval

\* ---- C40
StatsChannels == {"dashboard:stats", "dashboard:initial_stats"}
CountedStatuses == {"available", "busy", "away", "offline"}

\* the agent list and the call list that a stats computation finishing in
\* the coming step reads: its call list is the last of its three fetches
MockLists ==
  { << getMockAgents(ds.agents), getMockCalls(ds.calls, now) >> : ds \in MockDraws }

TickLists(id) ==
  { << ticks[i].req["sAgents"].val, Fetch("sCalls", upstream, activeCallsMap, now, d).val >> :
      i \in {j \in 1..Len(ticks) : /\ ticks[j].id = id
                                   /\ ticks[j].req["sCalls"] = Pending
                                   /\ ticks[j].req["sAgents"].state = "got"},
      d \in MockDraws }

SocketLists(id) ==
  { << sockets[i].req["sAgents"].val,
       Fetch("sCalls", upstream, activeCallsMap, now, d).val >> :
      i \in {j \in 1..Len(sockets) : /\ sockets[j].id = id
                                     /\ sockets[j].req["sCalls"] = Pending
                                     /\ sockets[j].req["sAgents"].state = "got"},
      d \in MockDraws }

StatsSum(p) ==
  /\ p.agents.total = p.agents.available + p.agents.busy + p.agents.away + p.agents.offline
  /\ p.agents.paused = 0

StatsAgree(p, lists) ==
  \E l \in lists :
    /\ p.agents.total = Len(l[1])
    /\ \A st \in CountedStatuses :
         p.agents[st] = Cardinality({k \in 1..Len(l[1]) : l[1][k].status = st})
    /\ p.calls.active = Len(l[2])

\* C40: the agent total of every stats payload is the sum of its available,
\* busy, away and offline counts and its paused count is 0; its counts are
\* those of the agent list fetched for the computation and its active-call
\* count is the length of the call list fetched for it, with provider data
\* and with synthetic data.
C40_StatsCountsAddUp ==
  [][\A k \in 1..Len(out') :
       out'[k].channel \in StatsChannels
         => /\ StatsSum(out'[k].payload)
            /\ StatsAgree(out'[k].payload,
                          IF useMockData THEN MockLists
                          ELSE IF out'[k].channel = "dashboard:stats"
                               THEN TickLists(out'[k].tick)
                               ELSE SocketLists(out'[k].socket))]_vars

\* a tick ends with stats counted on the listing of the provider
C40_Witness ==
  /\ lastOp = "Respond"
  /\ DataEmitted
  /\ ~out[4].synthetic
  /\ out[4].payload.agents.total > 1
  /\ out[4].payload.calls.active > 0

=============================================================================
